---- MODULE Spec2Model ----
(***************************************************************************)
(* A model of risuspubl's generic validation and model-mutation layer      *)
(* (risuspubl/api/commons.py) and of the two endpoint modules that use it  *)
(* (risuspubl/api/manuscripts.py, risuspubl/api/books.py).                 *)
(*                                                                         *)
(* Four specifications share the variables:                                *)
(*   Spec          delete_model_obj and the DELETE /manuscripts/<id>       *)
(*                 handler, statement by statement, over the committed     *)
(*                 tables and the session's uncommitted work;              *)
(*   SpecModel     create_model_obj and update_model_obj over parameter    *)
(*                 bundles (ordered, as a Python dict is);                 *)
(*   SpecValidate  validate_str and validate_date, with a clock that moves *)
(*                 on after the module was loaded;                         *)
(*   SpecBooks     the books module's globals and its request handlers.    *)
(*                                                                         *)
(* Strings are sequences of one-character strings, so that len(), int()    *)
(* and date.fromisoformat() are computed and not assumed.                  *)
(***************************************************************************)
EXTENDS Integers, Sequences, FiniteSets, TLC

VARIABLES
    rows,                 \* committed entity tables: model name -> set of primary keys
    authors_books,        \* committed authors_books rows, <<author_id, book_id>>
    authors_manuscripts,  \* committed authors_manuscripts rows, <<author_id, manuscript_id>>
    session,              \* db.session: the deletes executed and not yet committed
    pc,                   \* the statement the running call is at ("idle", "done", or a line)
    call,                 \* the running / last call: its arguments and its outcome
    today,                \* the clock: date.today() as <<year, month, day>>
    uptime,               \* days elapsed since commons was imported
    default_upper_bound,  \* validate_date's default upper_bound, as bound at def time
    globals_books,        \* the books module's global namespace: name -> object
    stack                 \* frames of the books handler on the interpreter's stack

vars == <<rows, authors_books, authors_manuscripts, session, pc, call,
          today, uptime, default_upper_bound, globals_books, stack>>

dbvars == <<rows, authors_books, authors_manuscripts, session>>
clockvars == <<today, uptime, default_upper_bound>>
booksvars == <<globals_books, stack>>

-----------------------------------------------------------------------------
(* Bounds of the model *)

MaxId == 2          \* primary keys 1..MaxId exist at the start; requests also name MaxId + 1
MaxAuthor == 2      \* author ids 1..MaxAuthor

Ids == 1..MaxId
RequestIds == 1..(MaxId + 1)
AuthorIds == 1..MaxAuthor

-----------------------------------------------------------------------------
(* Python strings, as sequences of characters *)

Digits == <<"0", "1", "2", "3", "4", "5", "6", "7", "8", "9">>
IsDigit(c) == \E k \in 1..10 : Digits[k] = c
DigitValue(c) == (CHOOSE k \in 1..10 : Digits[k] = c) - 1

AllDigits(s) == \A k \in 1..Len(s) : IsDigit(s[k])

RECURSIVE DigitsValue(_)
DigitsValue(s) ==
    IF s = <<>> THEN 0
    ELSE 10 * DigitsValue(SubSeq(s, 1, Len(s) - 1)) + DigitValue(s[Len(s)])

\* int(s) for a string of these characters: an optional sign, then digits.
HasSign(s) == Len(s) >= 1 /\ s[1] \in {"-", "+"}
Unsigned(s) == IF HasSign(s) THEN Tail(s) ELSE s
IntParses(s) == Unsigned(s) # <<>> /\ AllDigits(Unsigned(s))
ParseInt(s) ==
    IF Len(s) >= 1 /\ s[1] = "-" THEN 0 - DigitsValue(Unsigned(s)) ELSE DigitsValue(Unsigned(s))

\* str(n) for n >= 0, and n zero-padded to a width (as isoformat() pads).
RECURSIVE ToStr(_)
ToStr(n) == IF n < 10 THEN <<Digits[n + 1]>> ELSE ToStr(n \div 10) \o <<Digits[(n % 10) + 1]>>

RECURSIVE Pad(_, _)
Pad(s, width) == IF Len(s) >= width THEN s ELSE Pad(<<"0">> \o s, width)

\* s.endswith(suffix)
EndsWith(s, suffix) ==
    /\ Len(s) >= Len(suffix)
    /\ SubSeq(s, Len(s) - Len(suffix) + 1, Len(s)) = suffix

\* s.lower(), for the letters used here
LowerChar(c) ==
    CASE c = "T" -> "t" [] c = "R" -> "r" [] c = "U" -> "u" [] c = "E" -> "e"
      [] c = "F" -> "f" [] c = "A" -> "a" [] c = "L" -> "l" [] c = "S" -> "s"
      [] c = "Y" -> "y" [] c = "N" -> "n" [] c = "O" -> "o"
      [] OTHER -> c
Lower(s) == [k \in 1..Len(s) |-> LowerChar(s[k])]

RECURSIVE Repeat(_, _)
Repeat(c, n) == IF n = 0 THEN <<>> ELSE <<c>> \o Repeat(c, n - 1)

-----------------------------------------------------------------------------
(* datetime.date *)

IsLeap(y) == (y % 4 = 0 /\ y % 100 # 0) \/ y % 400 = 0

DaysInMonth(y, m) ==
    IF m = 2 THEN (IF IsLeap(y) THEN 29 ELSE 28)
    ELSE IF m \in {4, 6, 9, 11} THEN 30 ELSE 31

\* date.fromisoformat(s), on a string of the form the callers pass: YYYY-MM-DD
IsoShape(s) ==
    /\ Len(s) = 10
    /\ s[5] = "-" /\ s[8] = "-"
    /\ \A k \in {1, 2, 3, 4, 6, 7, 9, 10} : IsDigit(s[k])
IsoFields(s) ==
    <<DigitsValue(SubSeq(s, 1, 4)), DigitsValue(SubSeq(s, 6, 7)), DigitsValue(SubSeq(s, 9, 10))>>
IsDate(d) ==
    /\ d[1] >= 1
    /\ d[2] \in 1..12
    /\ d[3] >= 1 /\ d[3] <= DaysInMonth(d[1], d[2])
IsoParses(s) == IsoShape(s) /\ IsDate(IsoFields(s))

\* date.isoformat()
Isoformat(d) == Pad(ToStr(d[1]), 4) \o <<"-">> \o Pad(ToStr(d[2]), 2) \o <<"-">> \o Pad(ToStr(d[3]), 2)

\* d <= e on dates
DateLE(d, e) ==
    \/ d[1] < e[1]
    \/ d[1] = e[1] /\ d[2] < e[2]
    \/ d[1] = e[1] /\ d[2] = e[2] /\ d[3] <= e[3]

\* the day after d
NextDay(d) ==
    IF d[3] < DaysInMonth(d[1], d[2]) THEN <<d[1], d[2], d[3] + 1>>
    ELSE IF d[2] < 12 THEN <<d[1], d[2] + 1, 1>>
    ELSE <<d[1] + 1, 1, 1>>

-----------------------------------------------------------------------------
(* dbmodels and the storage layer *)

\* Parameter names, as the strings they are.
N_book_id == <<"b", "o", "o", "k", "_", "i", "d">>
N_client_id == <<"c", "l", "i", "e", "n", "t", "_", "i", "d">>
N_editor_id == <<"e", "d", "i", "t", "o", "r", "_", "i", "d">>
N_manuscript_id == <<"m", "a", "n", "u", "s", "c", "r", "i", "p", "t", "_", "i", "d">>
N_sales_record_id == <<"s", "a", "l", "e", "s", "_", "r", "e", "c", "o", "r", "d", "_", "i", "d">>
N_salesperson_id == <<"s", "a", "l", "e", "s", "p", "e", "r", "s", "o", "n", "_", "i", "d">>
N_series_id == <<"s", "e", "r", "i", "e", "s", "_", "i", "d">>
N_author_id == <<"a", "u", "t", "h", "o", "r", "_", "i", "d">>
N_title == <<"t", "i", "t", "l", "e">>
N_pages == <<"p", "a", "g", "e", "s">>

\* commons.py:11-12, the FK-name-to-entity-type mapping.
id_params_to_model_subclasses ==
    (N_book_id :> "Book") @@ (N_client_id :> "Client") @@ (N_editor_id :> "Editor")
    @@ (N_manuscript_id :> "Manuscript") @@ (N_sales_record_id :> "SalesRecord")
    @@ (N_salesperson_id :> "Salesperson") @@ (N_series_id :> "Series")

Models == {id_params_to_model_subclasses[k] : k \in DOMAIN id_params_to_model_subclasses}

\* The names `from ..dbmodels import *` binds in commons and manuscripts: the
\* model classes, the two association tables and db.  The association tables
\* are Authors_Books (commons.py:102) and Authors_Manuscripts (manuscripts.py:84).
DbmodelsNames == Models \cup {"Authors_Books", "Authors_Manuscripts", "db"}

\* Evaluating a global name: bound, or NameError.
NameIsBound(name) == name \in DbmodelsNames

\* <table>.delete().where(<table>.columns[1] == id_val): the rows the statement
\* removes.  columns[1] is the second column, the book / manuscript id.
DeleteWhereColumn1_WrongColumn(table, id_val) == {r \in table : r[1] = id_val}
DeleteWhereColumn1(table, id_val) == {r \in table : r[2] = id_val}

\* db.session.commit(): the session's executed deletes reach the tables.
CommittedRows ==
    [m \in Models |-> rows[m] \ {w.id : w \in {x \in session : x.kind = "row" /\ x.model = m}}]
CommittedAssoc(table, name) ==
    table \ UNION {DeleteWhereColumn1(table, w.id) :
                      w \in {x \in session : x.kind = "assoc" /\ x.model = name}}

Commit ==
    /\ rows' = CommittedRows
    /\ authors_books' = CommittedAssoc(authors_books, "Authors_Books")
    /\ authors_manuscripts' = CommittedAssoc(authors_manuscripts, "Authors_Manuscripts")
    /\ session' = {}

-----------------------------------------------------------------------------
(* The validators, commons.py:113-243 *)

\* What a validator returns (a value of the parameter's type) or raises (a
\* ValueError, by the fixed words of its message).
IntValue(n) == [t |-> "int", i |-> n, s |-> <<>>]
StrValue(s) == [t |-> "str", i |-> 0, s |-> s]
BoolValue(b) == [t |-> "bool", i |-> IF b THEN 1 ELSE 0, s |-> <<>>]
NoValue == [t |-> "none", i |-> 0, s |-> <<>>]

Returns(v) == [ok |-> TRUE, value |-> v, error |-> "none"]
Raises(message) == [ok |-> FALSE, value |-> NoValue, error |-> message]

\* validate_date's default lower_bound, '1900-01-01' (line 113)
DefaultLowerBoundDate == <<"1", "9", "0", "0", "-", "0", "1", "-", "0", "1">>

\* validate_date, lines 113-143.  The default upper_bound is the value the def
\* statement computed, date.today().isoformat() at import.
validate_date(param_name, param_value, args) ==
    LET lower_bound == IF Len(args) >= 1 THEN args[1] ELSE DefaultLowerBoundDate
        upper_bound == IF Len(args) >= 2 THEN args[2] ELSE default_upper_bound
    IN  IF ~IsoParses(param_value) THEN Raises("doesn't parse as a date")
        ELSE IF ~IsoParses(lower_bound) \/ ~IsoParses(upper_bound)
        THEN Raises("Invalid isoformat string")
        ELSE IF ~(/\ DateLE(IsoFields(lower_bound), IsoFields(param_value))
                  /\ DateLE(IsoFields(param_value), IsoFields(upper_bound)))
        THEN Raises("does not fall within")
        ELSE Returns(StrValue(param_value))

\* validate_int, lines 146-165.  Bounds not given are -inf and +inf.
validate_int(param_name, param_value, args) ==
    IF ~IntParses(param_value) THEN Raises("invalid literal for int()")
    ELSE LET param_int_value == ParseInt(param_value)
         IN  IF ~(/\ (Len(args) >= 1 => args[1] <= param_int_value)
                  /\ (Len(args) >= 2 => param_int_value <= args[2]))
             THEN Raises("does not fall between")
             ELSE Returns(IntValue(param_int_value))

\* validate_str's default bounds (line 193)
DefaultStrLowerBound == 1
DefaultStrUpperBound == 64

\* validate_str, lines 193-215, with the elif of lines 207 and 209 swapped
validate_str_ExactFirst(param_name, param_value, args) ==
    LET lower_bound == IF Len(args) >= 1 THEN args[1] ELSE DefaultStrLowerBound
        upper_bound == IF Len(args) >= 2 THEN args[2] ELSE DefaultStrUpperBound
    IN  IF ~(lower_bound <= Len(param_value) /\ Len(param_value) <= upper_bound)
        THEN IF lower_bound = upper_bound THEN Raises("is not equal to")
             ELSE IF Len(param_value) = 0 THEN Raises("may not be zero-length")
             ELSE Raises("does not fall between")
        ELSE Returns(StrValue(param_value))

\* validate_str, lines 193-215
validate_str(param_name, param_value, args) ==
    LET lower_bound == IF Len(args) >= 1 THEN args[1] ELSE DefaultStrLowerBound
        upper_bound == IF Len(args) >= 2 THEN args[2] ELSE DefaultStrUpperBound
    IN  IF ~(lower_bound <= Len(param_value) /\ Len(param_value) <= upper_bound)
        THEN IF Len(param_value) = 0 THEN Raises("may not be zero-length")
             ELSE IF lower_bound = upper_bound THEN Raises("is not equal to")
             ELSE Raises("does not fall between")
        ELSE Returns(StrValue(param_value))

\* validate_bool, lines 219-235
validate_bool(param_name, param_value) ==
    IF Lower(param_value) \in {<<"t", "r", "u", "e">>, <<"t">>, <<"y", "e", "s">>, <<"1">>}
    THEN Returns(BoolValue(TRUE))
    ELSE IF Lower(param_value) \in {<<"f", "a", "l", "s", "e">>, <<"f">>, <<"n", "o">>, <<"0">>}
    THEN Returns(BoolValue(FALSE))
    ELSE Raises("does not parse as either True or False")

\* types_to_validators, lines 242-243, applied as validator(param_name,
\* param_value, *validator_args).  (float is not modelled: no bundle here
\* carries one.)
Validate(param_type, param_name, param_value, validator_args) ==
    CASE param_type = "int" -> validate_int(param_name, param_value, validator_args)
      [] param_type = "bool" -> validate_bool(param_name, param_value)
      [] param_type = "str" -> validate_str(param_name, param_value, validator_args)
      [] param_type = "date" -> validate_date(param_name, param_value, validator_args)

-----------------------------------------------------------------------------
(* Calls *)

\* One call runs at a time: the next one starts when the last has returned.
Idle == pc = "idle"

NoCall == [op |-> "none"]

\* The call's result (or exception) has gone to the caller.
Return ==
    /\ pc = "done"
    /\ pc' = "idle"
    /\ call' = NoCall
    /\ session' = {}
    /\ UNCHANGED <<rows, authors_books, authors_manuscripts, today, uptime,
                   default_upper_bound, globals_books, stack>>

-----------------------------------------------------------------------------
(* delete_model_obj, commons.py:87-110 *)

DelCall(op, m, id, result, status) ==
    [op |-> op, model |-> m, id |-> id, result |-> result, status |-> status,
     found |-> id \in rows[m],
     n |-> Cardinality({r \in (IF m = "Book" THEN authors_books ELSE authors_manuscripts) :
                           r[2] = id})]

\* line 100: model_obj = model_subclass.query.get_or_404(id_val)
DeleteModelObj_Load(id_val, model_subclass) ==
    /\ Idle
    /\ session' = {}
    /\ IF id_val \in rows[model_subclass]
       THEN /\ pc' = "c101"
            /\ call' = DelCall("delete_model_obj", model_subclass, id_val, "running", 0)
       ELSE /\ pc' = "done"
            /\ call' = DelCall("delete_model_obj", model_subclass, id_val, "NotFound", 0)
    /\ UNCHANGED <<rows, authors_books, authors_manuscripts, clockvars, booksvars>>

\* lines 101-103 and 105-107: the branch on the model class, and the delete
\* statement built and executed in the session.
DeleteModelObj_Execute ==
    /\ pc = "c101"
    /\ IF call.model = "Book"
       THEN IF NameIsBound("Authors_Books")
            THEN /\ session' = session \cup {[kind |-> "assoc", model |-> "Authors_Books", id |-> call.id]}
                 /\ pc' = "c104"
                 /\ call' = call
            ELSE /\ pc' = "done"
                 /\ call' = [call EXCEPT !.result = "NameError"]
                 /\ session' = session
       ELSE IF call.model = "Manuscript"
       THEN IF NameIsBound("Authors_Manuscript")
            THEN /\ session' = session \cup {[kind |-> "assoc", model |-> "Authors_Manuscripts", id |-> call.id]}
                 /\ pc' = "c108"
                 /\ call' = call
            ELSE /\ pc' = "done"
                 /\ call' = [call EXCEPT !.result = "NameError"]
                 /\ session' = session
       ELSE /\ pc' = "c109"
            /\ UNCHANGED <<session, call>>
    /\ UNCHANGED <<rows, authors_books, authors_manuscripts, clockvars, booksvars>>

\* lines 104 and 108: db.session.commit() of the association delete
DeleteModelObj_CommitAssoc ==
    /\ pc \in {"c104", "c108"}
    /\ Commit
    /\ pc' = "c109"
    /\ UNCHANGED <<call, clockvars, booksvars>>

\* line 109: db.session.delete(model_obj)
DeleteModelObj_DeleteObj ==
    /\ pc = "c109"
    /\ session' = session \cup {[kind |-> "row", model |-> call.model, id |-> call.id]}
    /\ pc' = "c110"
    /\ UNCHANGED <<rows, authors_books, authors_manuscripts, call, clockvars, booksvars>>

\* line 110: db.session.commit(), and the return
DeleteModelObj_CommitObj ==
    /\ pc = "c110"
    /\ Commit
    /\ pc' = "done"
    /\ call' = [call EXCEPT !.result = "ok"]
    /\ UNCHANGED <<clockvars, booksvars>>

-----------------------------------------------------------------------------
(* create_model_obj and update_model_obj, commons.py:15-84 *)

\* A parameter bundle is a sequence of descriptors, in the order the dict's
\* items() yields them: [name, type, args, isNone, value], value being the raw
\* string when isNone is FALSE.

\* What a call has done so far: the constructor arguments collected (create),
\* the setattr calls made and the object's fields (update), the foreign-key
\* branches entered and the lookups made, and how it ended.
Progress(obj) ==
    [result |-> "running", at |-> 0, error |-> "none", args |-> <<>>,
     assigned |-> <<>>, obj |-> obj, fk |-> <<>>, lookups |-> <<>>]

\* id_model_subclass.query.get(param_value) is not None
QueryFinds(model_subclass, param_value) ==
    IntParses(param_value) /\ ParseInt(param_value) \in rows[model_subclass]

\* lines 38-42 and 77-81: the foreign-key branch.  The subscript of line 39 / 78
\* raises KeyError for a name the mapping does not hold.
ForeignKeyCheck(p, acc) ==
    IF ~EndsWith(p.name, <<"_", "i", "d">>) THEN acc
    ELSE LET entered == [acc EXCEPT !.fk = Append(@, p.name)]
         IN  IF p.name \notin DOMAIN id_params_to_model_subclasses
             THEN [entered EXCEPT !.result = "KeyError"]
             ELSE LET id_model_subclass == id_params_to_model_subclasses[p.name]
                      looked == [entered EXCEPT !.lookups = Append(@, <<id_model_subclass, p.value>>)]
                  IN  IF ~QueryFinds(id_model_subclass, p.value)
                      THEN [looked EXCEPT !.result = "Referential"]
                      ELSE looked

\* lines 77-83 with the validator called before the foreign-key branch
CreateParam_ValidateFirst(p, acc) ==
    LET r == Validate(p.type, p.name, p.value, p.args)
    IN  IF ~r.ok THEN [acc EXCEPT !.result = "Validation", !.error = r.error]
        ELSE LET a == ForeignKeyCheck(p, acc)
             IN  IF a.result # "running" THEN a
                 ELSE [a EXCEPT !.args = (p.name :> r.value) @@ @]

\* lines 77-83: a non-null parameter of create_model_obj
CreateParam(p, acc) ==
    LET a == ForeignKeyCheck(p, acc)
    IN  IF a.result # "running" THEN a
        ELSE LET r == Validate(p.type, p.name, p.value, p.args)
             IN  IF ~r.ok THEN [a EXCEPT !.result = "Validation", !.error = r.error]
                 ELSE [a EXCEPT !.args = (p.name :> r.value) @@ @]

\* lines 73-76 with every null parameter skipped
NullPolicy_SkipAll(p, optional_params) ==
    IF p.isNone THEN "continue" ELSE "process"

\* lines 73-76: what create_model_obj does with a parameter by its nullness
NullPolicy(p, optional_params) ==
    IF p.isNone /\ p.name \in optional_params THEN "continue"
    ELSE IF p.isNone THEN "raise"
    ELSE "process"

\* lines 72-83: the loop of create_model_obj, from the i-th item on
RECURSIVE CreateLoop(_, _, _, _)
CreateLoop(bundle, optional_params, i, acc) ==
    IF i > Len(bundle) THEN acc
    ELSE LET p == bundle[i]
             policy == NullPolicy(p, optional_params)
         IN  IF policy = "continue" THEN CreateLoop(bundle, optional_params, i + 1, acc)
             ELSE IF policy = "raise" THEN [acc EXCEPT !.result = "MissingParameter", !.at = i]
             ELSE LET a == CreateParam(p, acc)
                  IN  IF a.result # "running" THEN [a EXCEPT !.at = i]
                      ELSE CreateLoop(bundle, optional_params, i + 1, a)

\* create_model_obj, lines 71-84: the loop, then model_subclass(**model_obj_args)
create_model_obj(model_subclass, bundle, optional_params) ==
    LET a == CreateLoop(bundle, optional_params, 1, Progress(<<>>))
    IN  IF a.result # "running" THEN a
        ELSE [a EXCEPT !.result = "ok", !.obj = a.args]

\* line 33 with any() for all()
AllValuesNone_Any(bundle) == \E i \in 1..Len(bundle) : bundle[i].isNone

\* line 33: all(param_value is None for ... in params_to_types_args_values.values())
AllValuesNone(bundle) == \A i \in 1..Len(bundle) : bundle[i].isNone

\* lines 38-44 with line 44 assigning param_value, not what the validator returns
UpdateParam_AssignRaw(p, acc) ==
    LET a == ForeignKeyCheck(p, acc)
    IN  IF a.result # "running" THEN a
        ELSE LET r == Validate(p.type, p.name, p.value, p.args)
             IN  IF ~r.ok THEN [a EXCEPT !.result = "Validation", !.error = r.error]
                 ELSE [a EXCEPT !.obj = (p.name :> StrValue(p.value)) @@ @,
                                !.assigned = Append(@, p.name)]

\* lines 38-44: a non-null parameter of update_model_obj
UpdateParam(p, acc) ==
    LET a == ForeignKeyCheck(p, acc)
    IN  IF a.result # "running" THEN a
        ELSE LET r == Validate(p.type, p.name, p.value, p.args)
             IN  IF ~r.ok THEN [a EXCEPT !.result = "Validation", !.error = r.error]
                 ELSE [a EXCEPT !.obj = (p.name :> r.value) @@ @,
                                !.assigned = Append(@, p.name)]

\* lines 35-44: the loop of update_model_obj, from the i-th item on
RECURSIVE UpdateLoop(_, _, _)
UpdateLoop(bundle, i, acc) ==
    IF i > Len(bundle) THEN acc
    ELSE LET p == bundle[i]
         IN  IF p.isNone THEN UpdateLoop(bundle, i + 1, acc)
             ELSE LET a == UpdateParam(p, acc)
                  IN  IF a.result # "running" THEN [a EXCEPT !.at = i]
                      ELSE UpdateLoop(bundle, i + 1, a)

\* The row get_or_404 loads: its columns, before the call.
StoredObj(model_subclass, id_val) ==
    (N_title :> StrValue(<<"o", "l", "d">>)) @@ (N_pages :> IntValue(1)) @@ (N_editor_id :> NoValue)

\* update_model_obj, lines 32-45
update_model_obj(id_val, model_subclass, bundle) ==
    IF id_val \notin rows[model_subclass]
    THEN [Progress(<<>>) EXCEPT !.result = "NotFound"]
    ELSE IF AllValuesNone(bundle)
    THEN [Progress(StoredObj(model_subclass, id_val)) EXCEPT !.result = "NoOpUpdate"]
    ELSE LET a == UpdateLoop(bundle, 1, Progress(StoredObj(model_subclass, id_val)))
         IN  IF a.result # "running" THEN a ELSE [a EXCEPT !.result = "ok"]

-----------------------------------------------------------------------------
(* delete_manuscript, manuscripts.py:70-93 *)

\* lines 90-91: the handler's except clause, status = 400 if ValueError else 500.
\* get_or_404 raises werkzeug's NotFound, a NameError is a NameError: neither
\* is a ValueError.
ExceptionStatus(exception) == IF exception = "ValueError" THEN 400 ELSE 500

\* line 81: manuscript_obj = Manuscript.query.get_or_404(manuscript_id), inside
\* the try block: a NotFound leaves through the except clause of lines 90-93.
DeleteManuscript_Load(manuscript_id) ==
    /\ Idle
    /\ session' = {}
    /\ IF manuscript_id \in rows["Manuscript"]
       THEN /\ pc' = "m84"
            /\ call' = DelCall("delete_manuscript", "Manuscript", manuscript_id, "running", 0)
       ELSE /\ pc' = "done"
            /\ call' = DelCall("delete_manuscript", "Manuscript", manuscript_id, "NotFound",
                               ExceptionStatus("NotFound"))
    /\ UNCHANGED <<rows, authors_books, authors_manuscripts, clockvars, booksvars>>

\* lines 84-85: the delete of the authors_manuscripts rows, executed
DeleteManuscript_Execute ==
    /\ pc = "m84"
    /\ IF NameIsBound("Authors_Manuscripts")
       THEN /\ session' = session \cup {[kind |-> "assoc", model |-> "Authors_Manuscripts", id |-> call.id]}
            /\ pc' = "m86"
            /\ call' = call
       ELSE /\ pc' = "done"
            /\ call' = [call EXCEPT !.result = "NameError", !.status = ExceptionStatus("NameError")]
            /\ session' = session
    /\ UNCHANGED <<rows, authors_books, authors_manuscripts, clockvars, booksvars>>

\* line 86: db.session.commit()
DeleteManuscript_CommitAssoc ==
    /\ pc = "m86"
    /\ Commit
    /\ pc' = "m87"
    /\ UNCHANGED <<call, clockvars, booksvars>>

\* line 87: db.session.delete(manuscript_obj)
DeleteManuscript_DeleteObj ==
    /\ pc = "m87"
    /\ session' = session \cup {[kind |-> "row", model |-> "Manuscript", id |-> call.id]}
    /\ pc' = "m88"
    /\ UNCHANGED <<rows, authors_books, authors_manuscripts, call, clockvars, booksvars>>

\* lines 88-89: db.session.commit(); return jsonify(True)
DeleteManuscript_CommitObj ==
    /\ pc = "m88"
    /\ Commit
    /\ pc' = "done"
    /\ call' = [call EXCEPT !.result = "ok", !.status = 200]
    /\ UNCHANGED <<clockvars, booksvars>>

-----------------------------------------------------------------------------
(* The books module, books.py *)

\* An object a module-level name is bound to: an instance of one of utility's
\* callable classes, or a function defined by a def statement, with the
\* number of its parameters, the global name its body calls and the number of
\* arguments it passes.
Callable(class) == [kind |-> "callable", class |-> class, params |-> 0, calls |-> "", nargs |-> 0]
Function(params, calls, nargs) ==
    [kind |-> "function", class |-> "", params |-> params, calls |-> calls, nargs |-> nargs]

\* The handlers, lines 27-81: `return <name>(<arguments>)`.
IndexHandler == Function(0, "display_books", 0)
ShowHandler == Function(1, "display_book_by_id", 1)
UpdateHandler == Function(1, "update_book_by_id", 2)
DeleteHandler == Function(1, "delete_book_by_id", 1)

\* The statements of the module that bind a global name, in the order they
\* run at import: the assignments of lines 21-24, then the defs.
BooksModule ==
    << [name |-> "delete_book_by_id", obj |-> Callable("delete_table_row_by_id")],
       [name |-> "display_book_by_id", obj |-> Callable("display_table_row_by_id")],
       [name |-> "display_books", obj |-> Callable("display_table_rows")],
       [name |-> "update_book_by_id", obj |-> Callable("update_table_row_by_id")],
       [name |-> "index", obj |-> IndexHandler],
       [name |-> "show_book_by_id", obj |-> ShowHandler],
       [name |-> "update_book_by_id", obj |-> UpdateHandler],
       [name |-> "delete_book_by_id", obj |-> DeleteHandler] >>

\* Running the module: each statement binds its name, a later binding of a
\* name replacing an earlier one.
RECURSIVE ExecModule(_, _, _)
ExecModule(statements, i, namespace) ==
    IF i > Len(statements) THEN namespace
    ELSE ExecModule(statements, i + 1, (statements[i].name :> statements[i].obj) @@ namespace)

\* @blueprint.route registers the function object the def made.
Route(method) ==
    CASE method = "INDEX" -> IndexHandler
      [] method = "GET" -> ShowHandler
      [] method \in {"PATCH", "PUT"} -> UpdateHandler
      [] method = "DELETE" -> DeleteHandler

RecursionLimit == 3     \* frames the interpreter allows before RecursionError

\* A request reaches its handler: the first frame.
BooksRequest(method, book_id) ==
    /\ Idle
    /\ pc' = "body"
    /\ stack' = 1
    /\ session' = {}
    /\ call' = [op |-> "books", method |-> method, id |-> book_id, frame |-> Route(method),
                found |-> book_id \in rows["Book"],
                delegated |-> 0, selfcalls |-> 0, result |-> "running", status |-> 0]
    /\ UNCHANGED <<rows, authors_books, authors_manuscripts, clockvars, globals_books>>

\* What utility's callable does when it is called (utility is not in src/; by
\* spec sections 4.4, 4.5 and 6): the row is deleted with its association
\* rows, or updated or shown, and a response returned; 404 when no row has
\* the id.
Delegate(target) ==
    /\ pc' = "done"
    /\ stack' = 0
    /\ call' = [call EXCEPT !.delegated = @ + 1, !.result = "ok",
                            !.status = IF call.method = "INDEX" \/ call.found THEN 200 ELSE 404]
    /\ IF target.class = "delete_table_row_by_id" /\ call.found
       THEN /\ rows' = [rows EXCEPT !["Book"] = @ \ {call.id}]
            /\ authors_books' = {r \in authors_books : r[2] # call.id}
       ELSE UNCHANGED <<rows, authors_books>>
    /\ UNCHANGED <<authors_manuscripts, session, clockvars, globals_books>>

\* The handler's body, `return <name>(<arguments>)`: the name is looked up in
\* the module's globals when the statement runs.  A callable is called; a
\* function gets a new frame, unless the arguments do not fit its parameters
\* (TypeError) or the stack is full (RecursionError).  Flask answers an
\* exception a handler lets out with 500.
BooksBody ==
    /\ pc = "body"
    /\ LET target == globals_books[call.frame.calls]
       IN  IF target.kind = "callable" THEN Delegate(target)
           ELSE IF call.frame.nargs # target.params
           THEN /\ pc' = "done"
                /\ stack' = 0
                /\ call' = [call EXCEPT !.result = "TypeError", !.status = 500]
                /\ UNCHANGED <<dbvars, clockvars, globals_books>>
           ELSE IF stack >= RecursionLimit
           THEN /\ pc' = "done"
                /\ stack' = 0
                /\ call' = [call EXCEPT !.result = "RecursionError", !.status = 500]
                /\ UNCHANGED <<dbvars, clockvars, globals_books>>
           ELSE /\ pc' = "body"
                /\ stack' = stack + 1
                /\ call' = [call EXCEPT !.frame = target,
                                        !.selfcalls = @ + (IF target = call.frame THEN 1 ELSE 0)]
                /\ UNCHANGED <<dbvars, clockvars, globals_books>>

-----------------------------------------------------------------------------
(* Spec: the delete operations *)

\* The model classes delete_model_obj is applied to: the two with an
\* association table, and one without.
DeletableModels == {"Book", "Manuscript", "Editor"}

\* Every table holds the rows 1..MaxId.  Book b has any number 0..MaxAuthor of
\* authors, every manuscript has all MaxAuthor of them.
InitDb ==
    /\ rows = [m \in Models |-> Ids]
    /\ \E f \in [Ids -> 0..MaxAuthor] :
           authors_books = {r \in AuthorIds \X Ids : r[1] <= f[r[2]]}
    /\ authors_manuscripts = AuthorIds \X Ids
    /\ session = {}

\* commons is imported on the day `d`: the def statement of line 113 evaluates
\* date.today().isoformat() once, then.
InitClock(d) ==
    /\ today = d
    /\ uptime = 0
    /\ default_upper_bound = Isoformat(d)

InitClockIdle == InitClock(<<2024, 2, 28>>)

InitBooksIdle ==
    /\ globals_books = ExecModule(BooksModule, 1, <<>>)
    /\ stack = 0

Init ==
    /\ InitDb
    /\ pc = "idle"
    /\ call = NoCall
    /\ InitClockIdle
    /\ InitBooksIdle

\* a call of delete_model_obj, with any id and model class
DeleteModelObj_Enter ==
    /\ Idle
    /\ \E id_val \in RequestIds, model_subclass \in DeletableModels :
           DeleteModelObj_Load(id_val, model_subclass)

\* a DELETE /manuscripts/<id> request, with any id
DeleteManuscript_Enter ==
    /\ Idle
    /\ \E manuscript_id \in RequestIds : DeleteManuscript_Load(manuscript_id)

Next ==
    \/ DeleteModelObj_Enter
    \/ DeleteModelObj_Execute
    \/ DeleteModelObj_CommitAssoc
    \/ DeleteModelObj_DeleteObj
    \/ DeleteModelObj_CommitObj
    \/ DeleteManuscript_Enter
    \/ DeleteManuscript_Execute
    \/ DeleteManuscript_CommitAssoc
    \/ DeleteManuscript_DeleteObj
    \/ DeleteManuscript_CommitObj
    \/ Return

Spec == Init /\ [][Next]_vars

-----------------------------------------------------------------------------
(* Claims about the delete operations, under Spec *)

AssocOf(table, id) == {r \in table : r[2] = id}

\* C1: delete_model_obj(id, Book) on an existing book with N >= 0 rows of
\* authors_books referencing it: the association rows are gone from the
\* committed table while the book row is still there (the first commit comes
\* before the second), on return neither the book row nor an association row
\* of it is left, and no committed state holds an association row whose book
\* id is not in the books table.
C1_BookDeleteCascadesFirst ==
    /\ \A r \in authors_books : r[2] \in rows["Book"]
    /\ (call.op = "delete_model_obj" /\ call.model = "Book") =>
          /\ pc \in {"c109", "c110"} =>
                /\ AssocOf(authors_books, call.id) = {}
                /\ call.id \in rows["Book"]
          /\ (pc = "done" /\ call.result = "ok") =>
                /\ call.found
                /\ AssocOf(authors_books, call.id) = {}
                /\ call.id \notin rows["Book"]
          /\ (pc = "done" /\ call.found) => call.result = "ok"

\* C1's case: a book that had association rows has been deleted.
C1_Witness ==
    /\ pc = "done"
    /\ call.op = "delete_model_obj" /\ call.model = "Book"
    /\ call.found /\ call.n >= 1 /\ call.result = "ok"

\* C2: delete_model_obj(id, Manuscript) on an existing manuscript completes
\* normally, and on return the manuscript row and every authors_manuscripts
\* row referencing it are removed.
C2_ManuscriptDeleteCompletes ==
    (pc = "done" /\ call.op = "delete_model_obj" /\ call.model = "Manuscript" /\ call.found) =>
        /\ call.result = "ok"
        /\ AssocOf(authors_manuscripts, call.id) = {}
        /\ call.id \notin rows["Manuscript"]

\* C7: DELETE /manuscripts/<id> with an id matching no row of the manuscripts
\* table is answered with status 404, and deletes nothing.
C7_MissingManuscriptIs404 ==
    (pc = "done" /\ call.op = "delete_manuscript" /\ ~call.found) =>
        /\ call.status = 404
        /\ session = {}

-----------------------------------------------------------------------------
(* SpecValidate: the validators called directly, while the days pass *)

MaxUptime == 2      \* days the process is followed after the import
MaxStrLen == 3      \* validate_str is given every string over {a, b} up to this length
MaxStrBound == 3    \* and every lower and upper bound 0..MaxStrBound

\* The days on which the module is imported: before a leap day and before a
\* new year.
StartDates == {<<2024, 2, 28>>, <<2024, 12, 30>>}

RECURSIVE DaysAfter(_, _)
DaysAfter(d, n) == IF n = 0 THEN d ELSE DaysAfter(NextDay(d), n - 1)

\* The days the clock can show, and the day after the last of them.
ClockDays == {DaysAfter(d, n) : d \in StartDates, n \in 0..(MaxUptime + 1)}

Garbage == <<"a", "b">>

\* Date strings: the clock's days, the default lower bound and the day before
\* it, days that are not in the calendar, and a string that is no date.
DateInputs ==
    {Isoformat(d) : d \in ClockDays \cup {<<1899, 12, 31>>, <<1900, 1, 1>>, <<2024, 2, 30>>,
                                           <<2023, 2, 29>>, <<2024, 13, 1>>, <<2024, 2, 27>>}}
    \cup {Garbage}
DateBounds == {DefaultLowerBoundDate, Isoformat(<<2024, 2, 28>>), Isoformat(<<2024, 12, 31>>), Garbage}
DateArgs == {<<>>} \cup {<<lo, hi>> : lo \in DateBounds, hi \in DateBounds}

RECURSIVE StringsUpTo(_)
StringsUpTo(n) ==
    IF n = 0 THEN {<<>>}
    ELSE LET shorter == StringsUpTo(n - 1)
         IN  shorter \cup {s \o <<c>> : s \in {x \in shorter : Len(x) = n - 1}, c \in {"a", "b"}}

StrInputs ==
    StringsUpTo(MaxStrLen)
    \cup {Repeat("a", DefaultStrUpperBound), Repeat("a", DefaultStrUpperBound + 1)}
StrArgs ==
    {<<>>} \cup {<<lo>> : lo \in 0..MaxStrBound}
           \cup {<<lo, hi>> : lo \in 0..MaxStrBound, hi \in 0..MaxStrBound}

IntInputs == {<<"5">>, <<"-", "3">>, <<"1", "2">>, <<"x">>, <<>>, <<"-">>}
IntArgs == {<<>>, <<0>>, <<0, 5>>}

BoolInputs == {<<"T", "r", "u", "e">>, <<"y", "e", "s">>, <<"1">>, <<"N", "O">>, <<"f">>, <<"0">>,
               <<"x">>, <<>>}

ValidatorCall(op, value, args, ret) ==
    [op |-> op, value |-> value, args |-> args, ret |-> ret, today |-> today]

\* a call of validate_str(param_name, param_value, *args)
CallValidateStr(param_value, args) ==
    /\ Idle
    /\ pc' = "done"
    /\ call' = ValidatorCall("validate_str", param_value, args,
                             validate_str("p", param_value, args))
    /\ UNCHANGED <<dbvars, clockvars, booksvars>>

\* a call of validate_date(param_name, param_value, *args)
CallValidateDate(param_value, args) ==
    /\ Idle
    /\ pc' = "done"
    /\ call' = ValidatorCall("validate_date", param_value, args,
                             validate_date("p", param_value, args))
    /\ UNCHANGED <<dbvars, clockvars, booksvars>>

\* a call of validate_int(param_name, param_value, *args)
CallValidateInt(param_value, args) ==
    /\ Idle
    /\ pc' = "done"
    /\ call' = ValidatorCall("validate_int", param_value, args,
                             validate_int("p", param_value, args))
    /\ UNCHANGED <<dbvars, clockvars, booksvars>>

\* a call of validate_bool(param_name, param_value)
CallValidateBool(param_value) ==
    /\ Idle
    /\ pc' = "done"
    /\ call' = ValidatorCall("validate_bool", param_value, <<>>,
                             validate_bool("p", param_value))
    /\ UNCHANGED <<dbvars, clockvars, booksvars>>

\* Midnight passes; the process keeps running.
Tick ==
    /\ uptime < MaxUptime
    /\ today' = NextDay(today)
    /\ uptime' = uptime + 1
    /\ UNCHANGED <<dbvars, pc, call, default_upper_bound, booksvars>>

InitValidate ==
    /\ rows = [m \in Models |-> Ids]
    /\ authors_books = {}
    /\ authors_manuscripts = {}
    /\ session = {}
    /\ pc = "idle"
    /\ \E d \in StartDates : InitClock(d)
    /\ call = NoCall
    /\ InitBooksIdle

\* The calls, with any of the inputs.
ValidateStr ==
    Idle /\ \E param_value \in StrInputs, args \in StrArgs : CallValidateStr(param_value, args)
ValidateDate ==
    Idle /\ \E param_value \in DateInputs, args \in DateArgs : CallValidateDate(param_value, args)
ValidateInt ==
    Idle /\ \E param_value \in IntInputs, args \in IntArgs : CallValidateInt(param_value, args)
ValidateBool ==
    Idle /\ \E param_value \in BoolInputs : CallValidateBool(param_value)

NextValidate ==
    \/ ValidateStr
    \/ ValidateDate
    \/ ValidateInt
    \/ ValidateBool
    \/ Tick
    \/ Return

SpecValidate == InitValidate /\ [][NextValidate]_vars

-----------------------------------------------------------------------------
(* Claims about the validators, under SpecValidate *)

\* C8: validate_date called without explicit bounds accepts a well-formed
\* calendar date d iff 1900-01-01 <= d <= today, today being the day of the
\* call, also when the call is made on a later day than the import.
C8_DefaultUpperBoundIsToday ==
    (pc = "done" /\ call.op = "validate_date" /\ call.args = <<>> /\ IsoParses(call.value)) =>
        (call.ret.ok <=> /\ DateLE(<<1900, 1, 1>>, IsoFields(call.value))
                         /\ DateLE(IsoFields(call.value), call.today))

\* C9: validate_str(name, s, lo, hi) fails iff len(s) < lo or len(s) > hi and
\* otherwise returns s unchanged; a failure's message is the zero-length one
\* when len(s) = 0, else the exact-length one when lo = hi, else the range one.
C9_ValidateStrLengthAndMessage ==
    (pc = "done" /\ call.op = "validate_str") =>
        LET s == call.value
            lo == IF Len(call.args) >= 1 THEN call.args[1] ELSE DefaultStrLowerBound
            hi == IF Len(call.args) >= 2 THEN call.args[2] ELSE DefaultStrUpperBound
        IN  /\ ~call.ret.ok <=> (Len(s) < lo \/ Len(s) > hi)
            /\ call.ret.ok => call.ret.value = StrValue(s)
            /\ ~call.ret.ok =>
                  call.ret.error = IF Len(s) = 0 THEN "may not be zero-length"
                                   ELSE IF lo = hi THEN "is not equal to"
                                   ELSE "does not fall between"

\* C9's case: the empty string against equal bounds, where the order of the
\* two tests of the message decides.
C9_Witness ==
    /\ pc = "done" /\ call.op = "validate_str"
    /\ call.value = <<>> /\ Len(call.args) = 2 /\ call.args[1] = call.args[2]
    /\ ~call.ret.ok /\ call.ret.error = "may not be zero-length"

-----------------------------------------------------------------------------
(* SpecModel: create_model_obj and update_model_obj called on Book *)

MaxParams == 3      \* items in a parameter bundle

\* The parameters a bundle is made of: a string column, an integer column, a
\* foreign key the mapping holds, and a name ending in _id that it does not.
BundleNames == {N_title, N_pages, N_editor_id, N_author_id}

ParamType(name) == IF name = N_title THEN "str" ELSE "int"

ParamArgs(name) ==
    IF name = N_pages THEN <<1, 5>>
    ELSE IF name = N_editor_id THEN <<1, MaxId>>
    ELSE <<>>

\* Raw values: accepted and rejected by the validator; for editor_id every key
\* 1..MaxId (a row or not, by the editors table) and MaxId + 1 (never a row,
\* and outside the validator's bounds).
ParamValues(name) ==
    IF name = N_title THEN {<<>>, <<"a", "b">>}
    ELSE IF name = N_pages THEN {<<"3">>, <<"x">>}
    ELSE IF name = N_editor_id THEN {ToStr(i) : i \in RequestIds}
    ELSE {<<"1">>}

Descriptor(name, isNone, value) ==
    [name |-> name, type |-> ParamType(name), args |-> ParamArgs(name),
     isNone |-> isNone, value |-> value]

Descriptors ==
    UNION {{Descriptor(name, TRUE, <<>>)} \cup {Descriptor(name, FALSE, v) : v \in ParamValues(name)} :
              name \in BundleNames}

\* The bundles of k items: a dict holds a name once, in insertion order.
RECURSIVE BundlesOfLen(_)
BundlesOfLen(k) ==
    IF k = 0 THEN {<<>>}
    ELSE UNION {{Append(b, d) : d \in {x \in Descriptors : \A i \in 1..Len(b) : b[i].name # x.name}} :
                   b \in BundlesOfLen(k - 1)}

Bundles == UNION {BundlesOfLen(k) : k \in 0..MaxParams}

\* The optional_params sets the create calls are given.
OptionalSets == SUBSET {N_title, N_editor_id}

ModelCall(op, id_val, bundle, optional_params, res) ==
    [op |-> op, model |-> "Book", id |-> id_val, bundle |-> bundle,
     optional |-> optional_params, found |-> id_val \in rows["Book"], res |-> res]

\* a call of create_model_obj(Book, bundle, optional_params)
CallCreateModelObj(bundle, optional_params) ==
    /\ Idle
    /\ pc' = "done"
    /\ call' = ModelCall("create_model_obj", 0, bundle, optional_params,
                         create_model_obj("Book", bundle, optional_params))
    /\ UNCHANGED <<dbvars, clockvars, booksvars>>

\* a call of update_model_obj(id_val, Book, bundle); committing is the caller's
CallUpdateModelObj(id_val, bundle) ==
    /\ Idle
    /\ pc' = "done"
    /\ call' = ModelCall("update_model_obj", id_val, bundle, {},
                         update_model_obj(id_val, "Book", bundle))
    /\ UNCHANGED <<dbvars, clockvars, booksvars>>

\* Any set of the editors 1..MaxId is in the editors table: each of these keys,
\* which the validator of editor_id accepts, is the key of a row or of none.
InitModel ==
    /\ \E editors \in SUBSET Ids :
           rows = [m \in Models |-> IF m = "Editor" THEN editors ELSE Ids]
    /\ authors_books = {}
    /\ authors_manuscripts = {}
    /\ session = {}
    /\ pc = "idle"
    /\ call = NoCall
    /\ InitClockIdle
    /\ InitBooksIdle

\* The calls, with any bundle.
CreateModelObj ==
    /\ Idle
    /\ \E bundle \in Bundles, optional_params \in OptionalSets :
           CallCreateModelObj(bundle, optional_params)
UpdateModelObj ==
    /\ Idle
    /\ \E id_val \in RequestIds, bundle \in Bundles : CallUpdateModelObj(id_val, bundle)

NextModel ==
    \/ CreateModelObj
    \/ UpdateModelObj
    \/ Return

SpecModel == InitModel /\ [][NextModel]_vars

-----------------------------------------------------------------------------
(* Claims about create_model_obj and update_model_obj, under SpecModel *)

Registered(name) == name \in DOMAIN id_params_to_model_subclasses

\* p is a non-null registered foreign key whose value is the key of no row.
DanglingFk(p) ==
    /\ ~p.isNone
    /\ Registered(p.name)
    /\ ~(/\ IntParses(p.value)
         /\ ParseInt(p.value) \in rows[id_params_to_model_subclasses[p.name]])

\* p, taken alone, makes create_model_obj raise.
AtFault(p, optional_params) ==
    \/ p.isNone /\ p.name \notin optional_params
    \/ /\ ~p.isNone
       /\ \/ DanglingFk(p)
          \/ EndsWith(p.name, <<"_", "i", "d">>) /\ ~Registered(p.name)
          \/ ~Validate(p.type, p.name, p.value, p.args).ok

CreateDone == pc = "done" /\ call.op = "create_model_obj"

\* Every name of the bundle that ends in _id is a key of the mapping.
IdNamesRegistered(bundle) ==
    \A i \in 1..Len(bundle) :
        EndsWith(bundle[i].name, <<"_", "i", "d">>) => Registered(bundle[i].name)
UpdateDone == pc = "done" /\ call.op = "update_model_obj"

\* C3: update_model_obj for an existing entity with a bundle whose values are
\* all null (the empty bundle too) fails with the no-op-update error, with no
\* field assigned and no foreign-key lookup made.
C3_AllNullUpdateIsNoOp ==
    (UpdateDone /\ call.found /\ \A i \in 1..Len(call.bundle) : call.bundle[i].isNone) =>
        /\ call.res.result = "NoOpUpdate"
        /\ call.res.assigned = <<>>
        /\ call.res.lookups = <<>>
        /\ call.res.fk = <<>>
        /\ call.res.obj = StoredObj(call.model, call.id)

\* C3's case: a bundle of null values, a foreign key among them.
C3_Witness ==
    /\ UpdateDone /\ call.found
    /\ Len(call.bundle) >= 2
    /\ \A i \in 1..Len(call.bundle) : call.bundle[i].isNone
    /\ \E i \in 1..Len(call.bundle) : call.bundle[i].name = N_editor_id
    /\ call.res.result = "NoOpUpdate"

\* C4, as stated: create_model_obj given a bundle with a registered foreign
\* key whose non-null value matches no row always fails with the referential
\* error and constructs no entity, whatever the other parameters and their
\* order.  (Stated over the bundles whose _id names are all registered: what
\* refutes it is the order of the loop, not the KeyError of C6.)
C4_DanglingFkAlwaysReferential ==
    (/\ CreateDone
     /\ IdNamesRegistered(call.bundle)
     /\ \E k \in 1..Len(call.bundle) : DanglingFk(call.bundle[k])) =>
        /\ call.res.result = "Referential"
        /\ call.res.obj = <<>>

\* C4, amended: such a call always fails and constructs no entity; the error
\* is raised at the first parameter, in the bundle's order, that is at fault,
\* so it is the referential error when that parameter is the foreign key
\* (whether or not its value would pass its validator), and an earlier
\* parameter's own error otherwise.
C4_DanglingFkNeverConstructs ==
    CreateDone =>
        \A k \in 1..Len(call.bundle) :
            DanglingFk(call.bundle[k]) =>
                /\ call.res.result # "ok"
                /\ call.res.obj = <<>>
                /\ call.res.at \in 1..k
                /\ call.res.at = k => call.res.result = "Referential"
                /\ call.res.at < k => AtFault(call.bundle[call.res.at], call.optional)
                /\ \A j \in 1..(call.res.at - 1) : ~AtFault(call.bundle[j], call.optional)

\* C4's case: the foreign key's value has no row and is outside its
\* validator's bounds, other parameters come before it, and the referential
\* error is what is raised.
C4_Witness ==
    /\ CreateDone
    /\ \E k \in 2..Len(call.bundle) :
          /\ DanglingFk(call.bundle[k])
          /\ ~Validate(call.bundle[k].type, call.bundle[k].name, call.bundle[k].value,
                       call.bundle[k].args).ok
          /\ call.res.at = k
    /\ call.res.result = "Referential"

\* The constructor arguments of a bundle: the validated values of its
\* non-null parameters.
ValidatedArgs(bundle) ==
    [name \in {bundle[i].name : i \in {j \in 1..Len(bundle) : ~bundle[j].isNone}} |->
        LET p == bundle[CHOOSE i \in 1..Len(bundle) : bundle[i].name = name]
        IN  Validate(p.type, p.name, p.value, p.args).value]

\* C5, as stated: create_model_obj returns an entity only if every parameter
\* is non-null and accepted by its validator, or null and optional; a null
\* value of a parameter not in optional_params makes the call fail with the
\* missing-parameter error; the entity's constructor arguments are exactly the
\* validated values of the non-null parameters.  (Stated over the bundles whose
\* _id names are all registered, as C4 is.)
C5_RequiredNullIsMissingParameter ==
    (CreateDone /\ IdNamesRegistered(call.bundle)) =>
        /\ call.res.result = "ok" =>
              \A i \in 1..Len(call.bundle) :
                  LET p == call.bundle[i]
                  IN  \/ ~p.isNone /\ Validate(p.type, p.name, p.value, p.args).ok
                      \/ p.isNone /\ p.name \in call.optional
        /\ (\E i \in 1..Len(call.bundle) :
               call.bundle[i].isNone /\ call.bundle[i].name \notin call.optional) =>
              call.res.result = "MissingParameter"
        /\ call.res.result = "ok" => call.res.obj = ValidatedArgs(call.bundle)

\* C5, amended: as stated, except that a null value of a parameter not in
\* optional_params makes the call fail with the missing-parameter error only
\* when no parameter before it in the bundle's order is at fault; otherwise
\* the call fails with the first such parameter's error.
C5_CreateCollectsValidated ==
    CreateDone =>
        /\ call.res.result = "ok" =>
              \A i \in 1..Len(call.bundle) :
                  LET p == call.bundle[i]
                  IN  \/ ~p.isNone /\ Validate(p.type, p.name, p.value, p.args).ok
                      \/ p.isNone /\ p.name \in call.optional
        /\ \A i \in 1..Len(call.bundle) :
              (call.bundle[i].isNone /\ call.bundle[i].name \notin call.optional) =>
                  /\ call.res.result # "ok"
                  /\ call.res.at \in 1..i
                  /\ call.res.at = i => call.res.result = "MissingParameter"
                  /\ call.res.at < i => AtFault(call.bundle[call.res.at], call.optional)
                  /\ \A j \in 1..(call.res.at - 1) : ~AtFault(call.bundle[j], call.optional)
        /\ call.res.result = "ok" => call.res.obj = ValidatedArgs(call.bundle)

\* C5's case: an entity built from a bundle with a skipped optional null and
\* two validated values.
C5_Witness ==
    /\ CreateDone
    /\ call.res.result = "ok"
    /\ \E i \in 1..Len(call.bundle) : call.bundle[i].isNone
    /\ Cardinality(DOMAIN call.res.obj) = 2

\* C6: in create_model_obj and update_model_obj the foreign-key resolution is
\* entered only for names the mapping holds; a non-null parameter of any other
\* name, one ending in _id included, is looked up nowhere and is validated and
\* collected or assigned, so that only its validator can make the call fail
\* at it.
C6_FkOnlyForRegisteredNames ==
    ((CreateDone \/ UpdateDone) /\ call.res.result # "NotFound") =>
        /\ \A j \in 1..Len(call.res.fk) : Registered(call.res.fk[j])
        /\ \A i \in 1..Len(call.bundle) :
              (~call.bundle[i].isNone /\ ~Registered(call.bundle[i].name) /\ call.res.at = i) =>
                  call.res.result = "Validation"

\* The names of the non-null parameters among the first k items of the bundle,
\* in the bundle's order.
NonNullNames(bundle, k) ==
    LET nonnull == SelectSeq(SubSeq(bundle, 1, k), LAMBDA p : ~p.isNone)
    IN  [i \in 1..Len(nonnull) |-> nonnull[i].name]

\* The entity's fields once the non-null parameters among the first k items of
\* the bundle were assigned their validated values.
ObjAfter(model_subclass, id_val, bundle, k) ==
    [f \in DOMAIN StoredObj(model_subclass, id_val) |->
        IF \E i \in 1..k : bundle[i].name = f /\ ~bundle[i].isNone
        THEN LET p == bundle[CHOOSE i \in 1..k : bundle[i].name = f]
             IN  Validate(p.type, p.name, p.value, p.args).value
        ELSE StoredObj(model_subclass, id_val)[f]]

\* C11, as stated: update_model_obj is all-or-nothing on the loaded entity:
\* whenever the call fails (entity not found, no-op update, a foreign-key value
\* matching no row, a validator rejecting a value), no field of the entity has
\* been assigned a new value, for every bundle and every order of its
\* parameters.  (Stated over the bundles whose _id names are all registered,
\* as C4 is: what refutes it is the loop assigning as it goes.)
C11_UpdateAllOrNothing ==
    (UpdateDone /\ IdNamesRegistered(call.bundle) /\ call.res.result # "ok") =>
        /\ call.res.assigned = <<>>
        /\ call.found => call.res.obj = StoredObj(call.model, call.id)

\* C11, amended: update_model_obj assigns each parameter as the loop reaches
\* it.  A call that fails before the loop (entity not found, no-op update) has
\* assigned no field.  A call that fails at a parameter has assigned, with
\* their validated values, exactly the non-null parameters that come before it
\* in the bundle, and none at or after it: the entity is unchanged only if the
\* failing parameter is the first non-null one.  A call that returns the
\* entity has assigned every non-null parameter.
C11_UpdateAssignsUpToFailure ==
    UpdateDone =>
        LET res == call.res
            stored == StoredObj(call.model, call.id)
        IN  /\ res.result \in {"ok", "NotFound", "NoOpUpdate", "Referential",
                               "Validation", "KeyError"}
            /\ res.result = "NotFound" <=> ~call.found
            /\ res.result = "NotFound" => res.assigned = <<>> /\ res.obj = <<>>
            /\ res.result = "NoOpUpdate" => res.assigned = <<>> /\ res.obj = stored
            /\ res.result \in {"Referential", "Validation", "KeyError"} =>
                  /\ res.at \in 1..Len(call.bundle)
                  /\ ~call.bundle[res.at].isNone
                  /\ res.assigned = NonNullNames(call.bundle, res.at - 1)
                  /\ res.obj = ObjAfter(call.model, call.id, call.bundle, res.at - 1)
            /\ res.result = "ok" =>
                  /\ res.assigned = NonNullNames(call.bundle, Len(call.bundle))
                  /\ res.assigned # <<>>
                  /\ res.obj = ObjAfter(call.model, call.id, call.bundle, Len(call.bundle))

\* C11's case: a call fails at a foreign key whose value matches no row, or at
\* a value its validator rejects, after the loop has assigned an earlier
\* parameter, and the entity it loaded is no longer as stored.
C11_Witness ==
    /\ UpdateDone /\ call.found
    /\ IdNamesRegistered(call.bundle)
    /\ call.res.result \in {"Referential", "Validation"}
    /\ call.res.at >= 2
    /\ call.res.assigned # <<>>
    /\ call.res.obj # StoredObj(call.model, call.id)

-----------------------------------------------------------------------------
(* SpecBooks: requests to the books endpoints *)

BooksMethods == {"INDEX", "GET", "PATCH", "PUT", "DELETE"}

\* Any set of the books 1..MaxId is in the books table, each with all its
\* authors.
InitBooks ==
    /\ \E books \in SUBSET Ids :
          /\ rows = [m \in Models |-> IF m = "Book" THEN books ELSE Ids]
          /\ authors_books = AuthorIds \X books
    /\ authors_manuscripts = {}
    /\ session = {}
    /\ pc = "idle"
    /\ call = NoCall
    /\ InitClockIdle
    /\ InitBooksIdle

\* a request to any of the endpoints
BooksEnter ==
    Idle /\ \E method \in BooksMethods, book_id \in RequestIds : BooksRequest(method, book_id)

NextBooks ==
    \/ BooksEnter
    \/ BooksBody
    \/ Return

SpecBooks == InitBooks /\ [][NextBooks]_vars

-----------------------------------------------------------------------------
(* Claims about the books handlers, under SpecBooks *)

\* C10: the DELETE /books/<book_id> handler, and likewise the PATCH/PUT one,
\* ends by delegating exactly once to the per-model callable built at module
\* load, so that the row is deleted (resp. updated) and a response returned;
\* the handler never calls itself.
C10_BooksHandlersDelegateOnce ==
    (call.op = "books" /\ call.method \in {"DELETE", "PATCH", "PUT"}) =>
        /\ call.selfcalls = 0
        /\ pc = "done" =>
              /\ call.delegated = 1
              /\ call.result = "ok"
              /\ (call.method = "DELETE" /\ call.found) => call.id \notin rows["Book"]

====
